---- MODULE Spec2Model ----
(***************************************************************************)
(* Model of src/src/lib.hpp: the dense Matrix value type, the Armijo       *)
(* backtracking line search (armijo_call) and the gradient descent driver  *)
(* (gradient_method).                                                      *)
(*                                                                         *)
(* Numbers.  A C++ double is modelled by an exact rational [num, den]      *)
(* (den > 0, lowest terms); rounding, infinities and NaN are outside the   *)
(* model.  A C++ unsigned is 32 bits wide; where the code subtracts one    *)
(* from an index the wrapped value is kept as two 16 bit halves <<hi, lo>> *)
(* so that 0 - 1 = 2^32 - 1 is represented exactly.                        *)
(*                                                                         *)
(* Results.  Every operation that can throw returns a record               *)
(* [err, val]: err = "none" and val the returned value, or err the         *)
(* exception ("out_of_range" from vector::at, "invalid_argument" from the  *)
(* explicit throws) and val = NoVal; the result of a store carries in val  *)
(* the matrix object as the call leaves it, thrown or not.                 *)
(***************************************************************************)
EXTENDS Integers, Sequences, FiniteSets, TLC

VARIABLES
  A,       \* the Matrix object the caller operates on
  B,       \* the other operand of the binary operators
  nsets,   \* number of set() calls made on A
  last,    \* the last Matrix operation: [op, i, j, res]
  args,    \* the optimisation call: [fn, obj, x0, epsilon, s, beta, sigma, d]
  pc,      \* position in gradient_method / armijo_call
  xk,      \* gradient_method: current iterate
  dk,      \* gradient_method: descent direction
  ak,      \* gradient_method: step returned by the line search
  iter,    \* gradient_method: iteration counter
  n_call_armijo,  \* gradient_method: number of line searches
  arm,     \* armijo_call frame: [s, beta, sigma, x, d, iter]
  ret,     \* result of the optimisation call: [err, val]
  evaluated  \* whether f or gradf has been called

mvars == <<A, B, nsets, last>>

ovars == <<args, pc, xk, dk, ak, iter, n_call_armijo, arm, ret, evaluated>>

vars == <<mvars, ovars>>

\* ------------------------------------------------------------------------
\* Bounds of the model
\* ------------------------------------------------------------------------
MaxDim == 3
MaxSets == 2
MaxIter == 2
MaxArmijo == 3

\* ------------------------------------------------------------------------
\* Exact rationals standing for double
\* ------------------------------------------------------------------------
Abs(a) == IF a < 0 THEN -a ELSE a

RECURSIVE GCD(_, _)
GCD(a, b) == IF b = 0 THEN a ELSE GCD(b, a % b)

LCM(a, b) == (a \div GCD(a, b)) * b

Rat(n, d) ==
  LET g == GCD(Abs(n), d)
  IN  [num |-> n \div g, den |-> d \div g]

R(n) == [num |-> n, den |-> 1]

RAdd(a, b) ==
  LET l == LCM(a.den, b.den)
  IN  Rat(a.num * (l \div a.den) + b.num * (l \div b.den), l)

RNeg(a) == [num |-> -a.num, den |-> a.den]

RSub(a, b) == RAdd(a, RNeg(b))

RMul(a, b) ==
  LET g1 == GCD(Abs(a.num), b.den)
      g2 == GCD(Abs(b.num), a.den)
  IN  [num |-> (a.num \div g1) * (b.num \div g2),
       den |-> (a.den \div g2) * (b.den \div g1)]

RLt(a, b) ==
  LET l == LCM(a.den, b.den)
  IN  a.num * (l \div a.den) < b.num * (l \div b.den)

RGeq(a, b) == ~RLt(a, b)

RLeq(a, b) == ~RLt(b, a)

\* pow(base, e) for an unsigned exponent
RECURSIVE pow(_, _)
pow(base, e) == IF e = 0 THEN R(1) ELSE RMul(base, pow(base, e - 1))

\* ------------------------------------------------------------------------
\* 32 bit unsigned index arithmetic, as <<hi, lo>> halves
\* ------------------------------------------------------------------------
Half == 65536

\* i - 1 on an unsigned i (i < 2^16 in the model): 0 - 1 wraps to 2^32 - 1
U32Dec(i) == IF i = 0 THEN <<Half - 1, Half - 1>> ELSE <<0, i - 1>>

\* p % m and p / m for 0 < m < 2^15, by long division on the halves
U32Mod(p, m) == ((p[1] % m) * Half + p[2]) % m

U32Div(p, m) == <<p[1] \div m, ((p[1] % m) * Half + p[2]) \div m>>

\* the range check of std::vector::at for a vector of `size` elements
AtOk(size, p) == p[1] = 0 /\ p[2] < size

\* ------------------------------------------------------------------------
\* Results of throwing operations
\* ------------------------------------------------------------------------
NoVal == [num |-> 0, den |-> 0]

Ok(v) == [err |-> "none", val |-> v]

Raise(e) == [err |-> e, val |-> NoVal]

IsOk(r) == r.err = "none"

\* ------------------------------------------------------------------------
\* class Matrix: m rows, n columns, v the vector of rows
\* ------------------------------------------------------------------------
\* Matrix::Matrix()
Matrix0 == [m |-> 0, n |-> 0, v |-> <<>>]

\* Matrix::Matrix(rows, cols, value)
MatrixFill(rows, cols, value) ==
  [m |-> rows, n |-> cols,
   v |-> [i \in 1..rows |-> [j \in 1..cols |-> value]]]

\* Matrix::Matrix(const vector<double>&): a column vector
MatrixCol(w) ==
  [m |-> Len(w), n |-> 1, v |-> [i \in 1..Len(w) |-> <<w[i]>>]]

getRows(M) == M.m

getCols(M) == M.n

length(M) == M.m * M.n

isVector(M) == M.m = 1 \/ M.n = 1

\* v.at(r).at(c) with 0-based indices r, c given as halves
At(M, r, c) ==
  IF ~AtOk(Len(M.v), r) THEN Raise("out_of_range")
  ELSE IF ~AtOk(Len(M.v[r[2] + 1]), c) THEN Raise("out_of_range")
  ELSE Ok(M.v[r[2] + 1][c[2] + 1])

\* (mutant) the store goes to the row's last element when only the column is
\* out of range, and the exception follows the store
AtPutEager(M, r, c, value) ==
  IF ~AtOk(Len(M.v), r) THEN [err |-> "out_of_range", val |-> M]
  ELSE IF ~AtOk(Len(M.v[r[2] + 1]), c)
       THEN [err |-> "out_of_range",
             val |-> IF M.n = 0 THEN M
                     ELSE [M EXCEPT !.v[r[2] + 1][M.n] = value]]
  ELSE Ok([M EXCEPT !.v[r[2] + 1][c[2] + 1] = value])

\* v.at(r).at(c) = value.  val is the matrix object after the call: at()
\* throws before the assignment, so the object is as it was.
AtPut(M, r, c, value) ==
  IF ~AtOk(Len(M.v), r) THEN [err |-> "out_of_range", val |-> M]
  ELSE IF ~AtOk(Len(M.v[r[2] + 1]), c) THEN [err |-> "out_of_range", val |-> M]
  ELSE Ok([M EXCEPT !.v[r[2] + 1][c[2] + 1] = value])

\* Matrix::get(i, j)
get2(M, i, j) == At(M, U32Dec(i), U32Dec(j))

\* Matrix::set(i, j, value); val is the matrix object after the call
set2(M, i, j, value) == AtPut(M, U32Dec(i), U32Dec(j), value)

\* Matrix::get(i), column-major.  With m = 0 the code computes (i-1) % 0 and
\* (i-1) / 0: undefined behaviour.  The builds either trap in the division
\* (SIGFPE) or yield some index, and since v is empty v.at() then throws.
\* The operator gives the set of possible results.
get1(M, i) ==
  IF M.m = 0 THEN {Raise("SIGFPE"), Raise("out_of_range")}
  ELSE {At(M, <<0, U32Mod(U32Dec(i), M.m)>>, U32Div(U32Dec(i), M.m))}

\* Matrix::set(i, value), column-major; as get(i) for m = 0.  val is the
\* matrix object after the call.
set1(M, i, value) ==
  IF M.m = 0
  THEN {[err |-> "SIGFPE", val |-> M], [err |-> "out_of_range", val |-> M]}
  ELSE {AtPut(M, <<0, U32Mod(U32Dec(i), M.m)>>, U32Div(U32Dec(i), M.m), value)}

\* eye(n)
RECURSIVE eyeLoop(_, _, _)
eyeLoop(w, i, n) ==
  IF i > n THEN w
  ELSE eyeLoop(set2(w, i, i, R(1)).val, i + 1, n)

eye(n) == eyeLoop(MatrixFill(n, n, R(0)), 1, n)

\* Matrix::operator+ : the loops over this' dimensions, a.set(i,j, get + o.get)
RECURSIVE addLoop(_, _, _, _, _)
addLoop(a, this, o, i, j) ==
  IF i > this.m THEN Ok(a)
  ELSE IF j > this.n THEN addLoop(a, this, o, i + 1, 1)
  ELSE LET x == get2(this, i, j)
           y == get2(o, i, j)
       IN  IF ~IsOk(x) THEN x
           ELSE IF ~IsOk(y) THEN y
           ELSE LET s == set2(a, i, j, RAdd(x.val, y.val))
                IN  IF ~IsOk(s) THEN s ELSE addLoop(s.val, this, o, i, j + 1)

operator_plus(this, o) ==
  addLoop(MatrixFill(this.m, this.n, R(0)), this, o, 1, 1)

\* Matrix::operator-
RECURSIVE subLoop(_, _, _, _, _)
subLoop(a, this, o, i, j) ==
  IF i > this.m THEN Ok(a)
  ELSE IF j > this.n THEN subLoop(a, this, o, i + 1, 1)
  ELSE LET x == get2(this, i, j)
           y == get2(o, i, j)
       IN  IF ~IsOk(x) THEN x
           ELSE IF ~IsOk(y) THEN y
           ELSE LET s == set2(a, i, j, RSub(x.val, y.val))
                IN  IF ~IsOk(s) THEN s ELSE subLoop(s.val, this, o, i, j + 1)

operator_minus(this, o) ==
  subLoop(MatrixFill(this.m, this.n, R(0)), this, o, 1, 1)

\* Matrix::operator*(double), also operator*(double, const Matrix&)
RECURSIVE scaleLoop(_, _, _, _, _)
scaleLoop(a, this, s, i, j) ==
  IF i > this.m THEN Ok(a)
  ELSE IF j > this.n THEN scaleLoop(a, this, s, i + 1, 1)
  ELSE LET x == get2(this, i, j)
       IN  IF ~IsOk(x) THEN x
           ELSE LET w == set2(a, i, j, RMul(s, x.val))
                IN  IF ~IsOk(w) THEN w ELSE scaleLoop(w.val, this, s, i, j + 1)

operator_scale(this, s) ==
  scaleLoop(MatrixFill(this.m, this.n, R(0)), this, s, 1, 1)

\* Matrix::transpose(), Matrix::t()
RECURSIVE transposeLoop(_, _, _, _)
transposeLoop(w, this, i, j) ==
  IF i > getRows(this) THEN Ok(w)
  ELSE IF j > getCols(this) THEN transposeLoop(w, this, i + 1, 1)
  ELSE LET x == get2(this, i, j)
       IN  IF ~IsOk(x) THEN x
           ELSE LET s == set2(w, j, i, x.val)
                IN  IF ~IsOk(s) THEN s ELSE transposeLoop(s.val, this, i, j + 1)

transpose(this) ==
  transposeLoop(MatrixFill(getCols(this), getRows(this), R(0)), this, 1, 1)

t(this) == transpose(this)

\* (mutant) the inner loop stops one short: k < getCols()
RECURSIVE mulSumShort(_, _, _, _, _, _)
mulSumShort(sum, this, o, i, j, k) ==
  IF k >= getCols(this) THEN Ok(sum)
  ELSE LET a == get2(this, i, k)
           b == get2(o, k, j)
       IN  IF ~IsOk(a) THEN a
           ELSE IF ~IsOk(b) THEN b
           ELSE mulSumShort(RAdd(sum, RMul(a.val, b.val)), this, o, i, j, k + 1)

\* Matrix::operator*(const Matrix&): the inner sum over k, then the loops
RECURSIVE mulSum(_, _, _, _, _, _)
mulSum(sum, this, o, i, j, k) ==
  IF k > getCols(this) THEN Ok(sum)
  ELSE LET x == get2(this, i, k)
           y == get2(o, k, j)
       IN  IF ~IsOk(x) THEN x
           ELSE IF ~IsOk(y) THEN y
           ELSE mulSum(RAdd(sum, RMul(x.val, y.val)), this, o, i, j, k + 1)

RECURSIVE mulLoop(_, _, _, _, _)
mulLoop(w, this, o, i, j) ==
  IF i > getRows(this) THEN Ok(w)
  ELSE IF j > getCols(o) THEN mulLoop(w, this, o, i + 1, 1)
  ELSE LET sum == mulSum(R(0), this, o, i, j, 1)
       IN  IF ~IsOk(sum) THEN sum
           ELSE LET s == set2(w, i, j, sum.val)
                IN  IF ~IsOk(s) THEN s ELSE mulLoop(s.val, this, o, i, j + 1)

operator_mul(this, o) ==
  LET w == MatrixFill(getRows(this), getCols(o), R(0))
  IN  IF getCols(this) # getRows(o) THEN Raise("invalid_argument")
      ELSE mulLoop(w, this, o, 1, 1)

\* (mutant) the guard rejects every matrix that is not 2x2
det2Strict(M) ==
  IF M.m # 2 \/ M.n # 2 THEN Raise("invalid_argument")
  ELSE Ok(RSub(RMul(M.v[1][1], M.v[2][2]), RMul(M.v[1][2], M.v[2][1])))

\* Matrix::det2().  The four get() calls are unsequenced operands; every one
\* that fails throws the same exception type, so the first failure in any
\* order gives the same result.
det2(M) ==
  IF M.m # 2 /\ M.n # 2 THEN Raise("invalid_argument")
  ELSE LET a11 == get2(M, 1, 1)
           a22 == get2(M, 2, 2)
           a12 == get2(M, 1, 2)
           a21 == get2(M, 2, 1)
       IN  IF ~IsOk(a11) THEN a11
           ELSE IF ~IsOk(a22) THEN a22
           ELSE IF ~IsOk(a12) THEN a12
           ELSE IF ~IsOk(a21) THEN a21
           ELSE Ok(RSub(RMul(a11.val, a22.val), RMul(a12.val, a21.val)))

\* Matrix::x()
x(M) == IF M.m = 1 /\ M.n = 1 THEN get2(M, 1, 1) ELSE Raise("invalid_argument")

\* Matrix::x1()
x1(M) == IF M.m = 2 /\ M.n = 1 THEN get2(M, 1, 1) ELSE Raise("invalid_argument")

\* Matrix::x2()
x2(M) == IF M.m = 2 /\ M.n = 1 THEN get2(M, 2, 1) ELSE Raise("invalid_argument")

\* Matrix::mod(): the sum of get(i)*get(i) over i = 1..length(); the square
\* root is not taken, the callers compare the sum with a squared threshold.
\* The loop runs only when length() > 0, hence m > 0 and get(i) is defined.
RECURSIVE modLoop(_, _, _)
modLoop(sum, M, i) ==
  IF i > length(M) THEN Ok(sum)
  ELSE LET g == CHOOSE r \in get1(M, i) : TRUE
       IN  IF ~IsOk(g) THEN g
           ELSE modLoop(RAdd(sum, RMul(g.val, g.val)), M, i + 1)

modSq(M) == modLoop(R(0), M, 1)

\* ------------------------------------------------------------------------
\* The caller-supplied objective f and its gradient gradf (function
\* pointers).  Like fa, each reads its argument through x1() and x2().
\*   bowl0: f = (x1^2 + x2^2)/4,      gradf = (x1/2, x2/2)
\*   bowl1: f = 5(x1^2 + x2^2)/16,    gradf = (5 x1/8, 5 x2/8)
\*   ascent: f = -(x1^2 + x2^2)/4,    gradf = (x1/2, x2/2)   (not f's gradient)
\*   pad3:  f as bowl0,               gradf = (x1/2, x2/2, 0) (a 3x1 vector)
\*   row:   f as bowl0,               gradf = (x1/2  x2/2)    (a 1x2 vector)
\* ------------------------------------------------------------------------
Objectives == {"bowl0", "bowl1", "ascent", "pad3", "row"}

Col2(a, b) == MatrixCol(<<a, b>>)

f(obj, p) ==
  LET p1 == x1(p)
      p2 == x2(p)
  IN  IF ~IsOk(p1) THEN p1
      ELSE IF ~IsOk(p2) THEN p2
      ELSE LET sq == RAdd(RMul(p1.val, p1.val), RMul(p2.val, p2.val))
           IN  Ok(CASE obj = "bowl1" -> RMul(Rat(5, 16), sq)
                    [] obj = "ascent" -> RMul(Rat(-1, 4), sq)
                    [] OTHER -> RMul(Rat(1, 4), sq))

gradf(obj, p) ==
  LET p1 == x1(p)
      p2 == x2(p)
  IN  IF ~IsOk(p1) THEN p1
      ELSE IF ~IsOk(p2) THEN p2
      ELSE LET c == IF obj = "bowl1" THEN Rat(5, 8) ELSE Rat(1, 2)
               g1 == RMul(c, p1.val)
               g2 == RMul(c, p2.val)
           IN  Ok(CASE obj = "pad3" -> MatrixCol(<<g1, g2, R(0)>>)
                    [] obj = "row" -> [m |-> 1, n |-> 2, v |-> <<<<g1, g2>>>>]
                    [] OTHER -> Col2(g1, g2))

\* ------------------------------------------------------------------------
\* armijo_call
\* ------------------------------------------------------------------------
\* s * pow(beta, iter)
armijo_step(s, beta, it) == RMul(s, pow(beta, it))

\* the three operand chains of the loop test, each a result
armijo_fx(obj, a) == f(obj, a.x)

armijo_fnext(obj, a) ==
  LET sd == operator_scale(a.d, armijo_step(a.s, a.beta, a.iter))
  IN  IF ~IsOk(sd) THEN sd
      ELSE LET xn == operator_plus(a.x, sd.val)
           IN  IF ~IsOk(xn) THEN xn ELSE f(obj, xn.val)

armijo_slope(obj, a) ==
  LET g == gradf(obj, a.x)
  IN  IF ~IsOk(g) THEN g
      ELSE LET gt == t(g.val)
           IN  IF ~IsOk(gt) THEN gt
               ELSE LET gd == operator_mul(gt.val, a.d)
                    IN  IF ~IsOk(gd) THEN gd ELSE x(gd.val)

\* (mutant) the minus sign of -sigma is lost
armijo_holds_unsigned(fx, fnext, slope, a) ==
  RGeq(RSub(fx, fnext),
       RMul(RMul(RMul(a.sigma, a.s), pow(a.beta, a.iter)), slope))

\* f(x) - f(x + s*pow(beta,iter)*d) >= -sigma*s*pow(beta,iter)*(gradf(x).t()*d).x()
armijo_holds(fx, fnext, slope, a) ==
  RGeq(RSub(fx, fnext),
       RMul(RMul(RMul(RNeg(a.sigma), a.s), pow(a.beta, a.iter)), slope))

\* The loop test of armijo_call: the set of its possible outcomes, [err, val]
\* with val the truth of the test.  The operands of >=, - and * are
\* unsequenced: when several of them throw, any of these exceptions may be
\* the one that leaves the function.
armijo_test(obj, a) ==
  LET fx == armijo_fx(obj, a)
      fnext == armijo_fnext(obj, a)
      slope == armijo_slope(obj, a)
      errs == {r.err : r \in {fx, fnext, slope}} \ {"none"}
  IN  IF errs # {} THEN {[err |-> e, val |-> FALSE] : e \in errs}
      ELSE {Ok(armijo_holds(fx.val, fnext.val, slope.val, a))}

\* (mutant) the exponent advances by two
armijo_next_skip(it) == it + 2

\* ++iter in armijo_call
armijo_next(it) == it + 1

\* ------------------------------------------------------------------------
\* gradient_method
\* ------------------------------------------------------------------------
\* (mutant) the initial point is not printed
gm_print_nothing(p) == Ok(p)

\* the printing of the initial point: x0.x1() and x0.x2()
gm_print_point(p) ==
  LET p1 == x1(p)
      p2 == x2(p)
  IN  IF ~IsOk(p1) THEN p1 ELSE IF ~IsOk(p2) THEN p2 ELSE Ok(p)

\* (mutant) the stopping test with <= for <
gm_converged_leq(g, epsilon) ==
  /\ RLeq(R(0), epsilon)
  /\ RLeq(modSq(g).val, RMul(epsilon, epsilon))

\* the stopping test gradf(xk).mod() < epsilon; sqrt(q) < e iff e > 0 and q < e*e
gm_converged(g, epsilon) ==
  /\ RLt(R(0), epsilon)
  /\ RLt(modSq(g).val, RMul(epsilon, epsilon))

\* dk = (-1) * gradf(xk)
gm_direction(g) == operator_scale(g, R(-1))

\* xnext = xk + ak * dk
gm_next(p, a, d) ==
  LET sd == operator_scale(d, a)
  IN  IF ~IsOk(sd) THEN sd ELSE operator_plus(p, sd.val)

\* ++iter
gm_next_iter(k) == k + 1

\* (mutant) the line search counter is advanced twice
gm_next_n_call_twice(k) == k + 2

\* ++n_call_armijo
gm_next_n_call(k) == k + 1

Frame(s, beta, sigma, p, d, it) ==
  [s |-> s, beta |-> beta, sigma |-> sigma, x |-> p, d |-> d, iter |-> it]

NoFrame == Frame(R(0), R(0), R(0), Matrix0, Matrix0, 0)

\* a caller of gradient_method(f, gradf, x0, epsilon)
X0s ==
  {Col2(R(2), R(0)), Col2(R(2), R(1)), Col2(R(0), R(0)), Col2(R(-3), R(4)),
   MatrixCol(<<R(2)>>), MatrixCol(<<R(2), R(1), R(0)>>),
   MatrixFill(1, 2, R(1)), Matrix0}

Epsilons == {R(1), Rat(1, 2), R(0)}

\* a caller of armijo_call(s, beta, sigma, f, gradf, x, d)
Ss == {R(1), Rat(4, 5)}
Betas == {Rat(1, 2), Rat(4, 5)}
Sigmas == {Rat(1, 10), Rat(4, 5)}
Xs == {Col2(R(2), R(0)), Col2(R(2), R(1)), MatrixCol(<<R(2)>>)}
Ds ==
  {Col2(R(-1), R(0)), Col2(R(-1), R(-1)), Col2(R(1), R(0)),
   MatrixCol(<<R(-1)>>), MatrixCol(<<R(-1), R(0), R(0)>>),
   MatrixFill(1, 2, R(-1))}

Call(fn, obj, p, epsilon, s, beta, sigma, d) ==
  [fn |-> fn, obj |-> obj, x0 |-> p, epsilon |-> epsilon,
   s |-> s, beta |-> beta, sigma |-> sigma, d |-> d]

InitOpt ==
  /\ \/ \E obj \in Objectives, p \in X0s, e \in Epsilons :
          args = Call("gradient_method", obj, p, e, R(0), R(0), R(0), Matrix0)
     \/ \E obj \in Objectives, p \in Xs, d \in Ds,
           s \in Ss, beta \in Betas, sigma \in Sigmas :
          args = Call("armijo_call", obj, p, R(0), s, beta, sigma, d)
  /\ pc = "call"
  /\ xk = Matrix0
  /\ dk = Matrix0
  /\ ak = R(0)
  /\ iter = 0
  /\ n_call_armijo = 0
  /\ arm = NoFrame
  /\ ret = Raise("pending")
  /\ evaluated = FALSE

\* gradient_method, entry: the initial point is printed, then the locals are
\* initialised
gm_enter ==
  /\ pc = "call" /\ args.fn = "gradient_method"
  /\ LET r == gm_print_point(args.x0)
     IN  IF IsOk(r)
         THEN /\ pc' = "gm_test"
              /\ xk' = args.x0
              /\ UNCHANGED ret
         ELSE /\ pc' = "error"
              /\ ret' = Raise(r.err)
              /\ UNCHANGED xk
  /\ UNCHANGED <<args, dk, ak, iter, n_call_armijo, arm, evaluated>>
  /\ UNCHANGED mvars

\* gradient_method, the stopping test holds: break, print the counters, the
\* point xk.x1(), xk.x2() and the value f(xk), return xk
gm_return ==
  /\ pc = "gm_test"
  /\ gm_converged(gradf(args.obj, xk).val, args.epsilon)
  /\ LET p == gm_print_point(xk)
         fv == f(args.obj, xk)
     IN  IF IsOk(p) /\ IsOk(fv)
         THEN pc' = "done" /\ ret' = Ok(xk)
         ELSE pc' = "error" /\ ret' = Raise(IF IsOk(p) THEN fv.err ELSE p.err)
  /\ evaluated' = TRUE
  /\ UNCHANGED <<args, xk, dk, ak, iter, n_call_armijo, arm>>
  /\ UNCHANGED mvars

\* gradient_method, the stopping test fails: ++iter, dk, call armijo_call
gm_iterate ==
  /\ pc = "gm_test"
  /\ ~gm_converged(gradf(args.obj, xk).val, args.epsilon)
  /\ iter < MaxIter
  /\ iter' = gm_next_iter(iter)
  /\ dk' = gm_direction(gradf(args.obj, xk).val).val
  /\ arm' = Frame(Rat(4, 5), Rat(4, 5), Rat(4, 5), xk, dk', 0)
  /\ pc' = "armijo"
  /\ evaluated' = TRUE
  /\ UNCHANGED <<args, xk, ak, n_call_armijo, ret>>
  /\ UNCHANGED mvars

\* armijo_call called by the caller directly
armijo_enter ==
  /\ pc = "call" /\ args.fn = "armijo_call"
  /\ arm' = Frame(args.s, args.beta, args.sigma, args.x0, args.d, 0)
  /\ pc' = "armijo"
  /\ UNCHANGED <<args, xk, dk, ak, iter, n_call_armijo, ret, evaluated>>
  /\ UNCHANGED mvars

\* armijo_call, the test fails: ++iter
armijo_retry ==
  /\ pc = "armijo"
  /\ arm.iter < MaxArmijo
  /\ \E o \in armijo_test(args.obj, arm) : IsOk(o) /\ ~o.val
  /\ arm' = [arm EXCEPT !.iter = armijo_next(arm.iter)]
  /\ evaluated' = TRUE
  /\ UNCHANGED <<args, pc, xk, dk, ak, iter, n_call_armijo, ret>>
  /\ UNCHANGED mvars

\* armijo_call, the test holds: break and return t = s * pow(beta, iter)
armijo_return ==
  /\ pc = "armijo"
  /\ \E o \in armijo_test(args.obj, arm) : IsOk(o) /\ o.val
  /\ LET step == armijo_step(arm.s, arm.beta, arm.iter)
     IN  IF args.fn = "armijo_call"
         THEN pc' = "done" /\ ret' = Ok(step) /\ UNCHANGED ak
         ELSE pc' = "gm_update" /\ ak' = step /\ UNCHANGED ret
  /\ evaluated' = TRUE
  /\ UNCHANGED <<args, xk, dk, iter, n_call_armijo, arm>>
  /\ UNCHANGED mvars

\* armijo_call, the test throws: the exception leaves armijo_call and, when
\* gradient_method called it, gradient_method too
armijo_throw ==
  /\ pc = "armijo"
  /\ \E o \in armijo_test(args.obj, arm) :
       /\ ~IsOk(o)
       /\ ret' = Raise(o.err)
  /\ pc' = "error"
  /\ evaluated' = TRUE
  /\ UNCHANGED <<args, xk, dk, ak, iter, n_call_armijo, arm>>
  /\ UNCHANGED mvars

\* gradient_method after the line search: ++n_call_armijo, xnext, xk = xnext
gm_update ==
  /\ pc = "gm_update"
  /\ n_call_armijo' = gm_next_n_call(n_call_armijo)
  /\ LET r == gm_next(xk, ak, dk)
     IN  IF IsOk(r)
         THEN xk' = r.val /\ pc' = "gm_test" /\ UNCHANGED ret
         ELSE pc' = "error" /\ ret' = Raise(r.err) /\ UNCHANGED xk
  /\ UNCHANGED <<args, dk, ak, iter, arm, evaluated>>
  /\ UNCHANGED mvars

NextOpt ==
  \/ gm_enter \/ gm_return \/ gm_iterate \/ gm_update
  \/ armijo_enter \/ armijo_retry \/ armijo_return \/ armijo_throw

\* ------------------------------------------------------------------------
\* A caller of the Matrix class: it constructs A, stores elements into A,
\* and then performs one operation on A, a binary operator after constructing
\* its operand B.  An exception ends the caller.
\* ------------------------------------------------------------------------
AFill == {R(1)}
BFill == {R(3)}
SetVals == {R(2)}
Dims == 0..MaxDim
Idx2 == 0..(MaxDim + 1)
Idx1 == 0..(MaxDim * MaxDim + 1)
BuildOps == {"construct", "set1", "set2"}

Op(op, i, j, res) == [op |-> op, i |-> i, j |-> j, res |-> res]

InitMatrixVars ==
  /\ \E r \in Dims, c \in Dims, val \in AFill : A = MatrixFill(r, c, val)
  /\ B = Matrix0
  /\ nsets = 0
  /\ last = Op("construct", 0, 0, Ok(R(0)))

\* the caller is still building A: no call has thrown (the caller catches
\* nothing) and no operation other than a store has been performed
Building == last.op \in BuildOps /\ IsOk(last.res)

\* the caller constructs the operand B of a binary operator
ConstructB ==
  /\ Building
  /\ \E r \in Dims, c \in Dims, val \in BFill : B' = MatrixFill(r, c, val)
  /\ last' = Op("constructB", 0, 0, Ok(R(0)))
  /\ UNCHANGED <<A, nsets>>
  /\ UNCHANGED ovars

CallSet1 ==
  /\ Building /\ nsets < MaxSets
  /\ \E i \in Idx1, val \in SetVals : \E r \in set1(A, i, val) :
       /\ A' = r.val
       /\ last' = Op("set1", i, 0, [err |-> r.err, val |-> val])
  /\ nsets' = nsets + 1
  /\ UNCHANGED B
  /\ UNCHANGED ovars

CallSet2 ==
  /\ Building /\ nsets < MaxSets
  /\ \E i \in Idx2, j \in Idx2, val \in SetVals :
       LET r == set2(A, i, j, val)
       IN  /\ A' = r.val
           /\ last' = Op("set2", i, j, [err |-> r.err, val |-> val])
  /\ nsets' = nsets + 1
  /\ UNCHANGED B
  /\ UNCHANGED ovars

CallGet1 ==
  /\ Building
  /\ \E i \in Idx1 : \E r \in get1(A, i) : last' = Op("get1", i, 0, r)
  /\ UNCHANGED <<A, B, nsets>>
  /\ UNCHANGED ovars

CallGet2 ==
  /\ Building
  /\ \E i \in Idx2, j \in Idx2 : last' = Op("get2", i, j, get2(A, i, j))
  /\ UNCHANGED <<A, B, nsets>>
  /\ UNCHANGED ovars

CallPlus ==
  /\ last.op = "constructB"
  /\ last' = Op("plus", 0, 0, operator_plus(A, B))
  /\ UNCHANGED <<A, B, nsets>>
  /\ UNCHANGED ovars

CallMinus ==
  /\ last.op = "constructB"
  /\ last' = Op("minus", 0, 0, operator_minus(A, B))
  /\ UNCHANGED <<A, B, nsets>>
  /\ UNCHANGED ovars

CallMul ==
  /\ last.op = "constructB"
  /\ last' = Op("mul", 0, 0, operator_mul(A, B))
  /\ UNCHANGED <<A, B, nsets>>
  /\ UNCHANGED ovars

CallEyeLeft ==
  /\ Building
  /\ last' = Op("eye_left", 0, 0, operator_mul(eye(getRows(A)), A))
  /\ UNCHANGED <<A, B, nsets>>
  /\ UNCHANGED ovars

CallEyeRight ==
  /\ Building
  /\ last' = Op("eye_right", 0, 0, operator_mul(A, eye(getCols(A))))
  /\ UNCHANGED <<A, B, nsets>>
  /\ UNCHANGED ovars

CallDet2 ==
  /\ Building
  /\ last' = Op("det2", 0, 0, det2(A))
  /\ UNCHANGED <<A, B, nsets>>
  /\ UNCHANGED ovars

CallX ==
  /\ Building
  /\ \E which \in {"x", "x1", "x2"} :
       last' = Op(which, 0, 0,
                  CASE which = "x" -> x(A) [] which = "x1" -> x1(A) [] OTHER -> x2(A))
  /\ UNCHANGED <<A, B, nsets>>
  /\ UNCHANGED ovars

NextMatrix ==
  \/ CallSet1 \/ CallSet2 \/ CallGet1 \/ CallGet2 \/ ConstructB
  \/ CallPlus \/ CallMinus \/ CallMul \/ CallEyeLeft \/ CallEyeRight
  \/ CallDet2 \/ CallX

\* the Matrix caller alone, no optimisation call in progress
OptIdle ==
  /\ args = Call("none", "bowl0", Matrix0, R(0), R(0), R(0), R(0), Matrix0)
  /\ pc = "idle"
  /\ xk = Matrix0 /\ dk = Matrix0 /\ ak = R(0)
  /\ iter = 0 /\ n_call_armijo = 0
  /\ arm = NoFrame
  /\ ret = Raise("pending")
  /\ evaluated = FALSE

\* the optimisation caller alone, no Matrix caller
MatrixIdle ==
  /\ A = Matrix0 /\ B = Matrix0 /\ nsets = 0
  /\ last = Op("construct", 0, 0, Ok(R(0)))

InitMatrix == InitMatrixVars /\ OptIdle

SpecMatrix == InitMatrix /\ [][NextMatrix]_vars

Init == InitOpt /\ MatrixIdle

Next == NextOpt

Spec == Init /\ [][Next]_vars

\* ------------------------------------------------------------------------
\* Properties of the Matrix class, checked under SpecMatrix
\* ------------------------------------------------------------------------
SameShape(M, N) == M.m = N.m /\ M.n = N.n

\* the matrix is m rows of n elements each
WellFormed(M) ==
  /\ Len(M.v) = M.m
  /\ \A i \in 1..M.m : Len(M.v[i]) = M.n

\* sum over p in 1..k of M[i,p] * N[p,j]
RECURSIVE DotSum(_, _, _, _, _)
DotSum(M, N, i, j, k) ==
  IF k = 0 THEN R(0)
  ELSE RAdd(DotSum(M, N, i, j, k - 1), RMul(M.v[i][k], N.v[k][j]))

\* C1: A + B and A - B fail with an error whenever the shapes of A and B
\* differ; no result matrix is returned for unequal shapes.
C1_UnequalShapesFail ==
  (last.op \in {"plus", "minus"} /\ ~SameShape(A, B)) => ~IsOk(last.res)

\* C5: for every matrix (zero rows included) and every linear index i
\* outside [1, m*n] (0 included), get(i) and set(i, v) fail with an
\* out-of-range error.
C5_LinearIndexOutOfRange ==
  (last.op \in {"get1", "set1"} /\ (last.i < 1 \/ last.i > A.m * A.n))
    => last.res.err = "out_of_range"

\* C6: det2() throws the shape error exactly when m # 2 and n # 2; with
\* m = 2 or n = 2 it returns a11*a22 - a12*a21 if m >= 2 and n >= 2, and
\* fails with out_of_range from the element access otherwise.
C6_Det2Boundary ==
  last.op = "det2" =>
    IF A.m # 2 /\ A.n # 2 THEN last.res.err = "invalid_argument"
    ELSE IF A.m >= 2 /\ A.n >= 2
         THEN /\ IsOk(last.res)
              /\ last.res.val = RSub(RMul(A.v[1][1], A.v[2][2]),
                                     RMul(A.v[1][2], A.v[2][1]))
         ELSE last.res.err = "out_of_range"

\* C6 witness: det2 has returned a value for a 2x3 or a 3x2 matrix with an
\* element stored, and that value is not zero
C6_Witness ==
  /\ last.op = "det2" /\ IsOk(last.res)
  /\ A.m # A.n
  /\ last.res.val # R(0)

\* C7: A * B fails with invalid_argument when A.cols # B.rows; otherwise it
\* returns the A.rows x B.cols matrix of the sums over p of A[i,p]*B[p,j];
\* eye(A.rows) * A = A and A * eye(A.cols) = A.
C7_Product ==
  /\ last.op = "mul" =>
       IF A.n # B.m THEN last.res.err = "invalid_argument"
       ELSE /\ IsOk(last.res)
            /\ last.res.val.m = A.m /\ last.res.val.n = B.n
            /\ WellFormed(last.res.val)
            /\ \A i \in 1..A.m, j \in 1..B.n :
                 last.res.val.v[i][j] = DotSum(A, B, i, j, A.n)
  /\ last.op \in {"eye_left", "eye_right"} =>
       IsOk(last.res) /\ last.res.val = A

\* C7 witness: a product of a non-uniform A with at least two columns and a
\* B with at least two columns has been returned
C7_Witness ==
  /\ last.op = "mul" /\ IsOk(last.res)
  /\ A.m >= 2 /\ A.n >= 2 /\ B.n >= 2
  /\ \E i \in 1..A.m, j \in 1..A.n : A.v[i][j] = R(2)

\* C8: a set(i, v) or set(i, j, v) that fails leaves the matrix as it was,
\* and +, -, matrix *, det2, x, x1, x2 leave both operands as they were,
\* whether they fail or not.
C8_NoPartialEffect ==
  [][/\ (last'.op \in {"set1", "set2"} /\ ~IsOk(last'.res)) => A' = A
     /\ last'.op \in {"plus", "minus", "mul", "det2", "x", "x1", "x2"}
          => (A' = A /\ B' = B)]_vars

\* C8 witness: a set(i, j, v) with a valid row and a column out of range has
\* failed on a matrix that an earlier set had changed
C8_Witness ==
  /\ last.op = "set2" /\ last.res.err = "out_of_range"
  /\ last.i \in 1..A.m /\ A.n > 0
  /\ \E i \in 1..A.m, j \in 1..A.n : A.v[i][j] = R(2)

\* ------------------------------------------------------------------------
\* Properties of armijo_call and gradient_method, checked under Spec
\* ------------------------------------------------------------------------
\* the sum of the squares of all elements of M
RECURSIVE RowSq(_, _)
RowSq(row, k) ==
  IF k = 0 THEN R(0) ELSE RAdd(RowSq(row, k - 1), RMul(row[k], row[k]))

RECURSIVE NormSq(_, _)
NormSq(M, k) ==
  IF k = 0 THEN R(0) ELSE RAdd(NormSq(M, k - 1), RowSq(M.v[k], M.n))

\* ||M|| < e
NormLt(M, e) == RLt(R(0), e) /\ RLt(NormSq(M, M.m), RMul(e, e))

InGradientMethod == args.fn = "gradient_method"

IsColumn2(M) == M.m = 2 /\ M.n = 1

\* armijo_call has returned (to gradient_method or to the caller)
ArmijoReturned ==
  \/ pc = "gm_update"
  \/ pc = "done" /\ args.fn = "armijo_call"

ArmijoResult == IF args.fn = "armijo_call" THEN ret.val ELSE ak

\* the loop test of armijo_call at exponent j holds
ArmijoAt(j) == armijo_test(args.obj, [arm EXCEPT !.iter = j]) = {Ok(TRUE)}

\* C2: when gradient_method returns, the returned iterate xk satisfies
\* ||gradf(xk)|| < epsilon.
C2_ReturnedGradientSmall ==
  (InGradientMethod /\ pc = "done") =>
    /\ IsOk(ret)
    /\ NormLt(gradf(args.obj, ret.val).val, args.epsilon)

\* C2 witness: gradient_method has returned a point other than x0
C2_Witness ==
  /\ InGradientMethod /\ pc = "done"
  /\ ret.val # args.x0

\* C3: in every run of gradient_method the objective does not increase from
\* an iterate to the next: f(x_{k+1}) <= f(xk).
C3_ObjectiveNonIncreasing ==
  [][(pc = "gm_update" /\ pc' = "gm_test")
       => RLeq(f(args.obj, xk').val, f(args.obj, xk).val)]_vars

\* C3 witness: an iterate has been replaced by one with a smaller objective
C3_Witness ==
  /\ InGradientMethod /\ pc = "gm_test" /\ n_call_armijo >= 1
  /\ RLt(f(args.obj, xk).val, f(args.obj, args.x0).val)

\* C4: when armijo_call returns, its result is s*beta^m with m the smallest
\* exponent >= 0 at which the sufficient-decrease test holds: the test holds
\* at m and fails at every exponent 0..m-1.
C4_SmallestExponent ==
  ArmijoReturned =>
    /\ ArmijoResult = RMul(arm.s, pow(arm.beta, arm.iter))
    /\ ArmijoAt(arm.iter)
    /\ \A j \in 0..(arm.iter - 1) : ~ArmijoAt(j)

\* C4 witness: armijo_call has returned after the test failed at least twice
C4_Witness == ArmijoReturned /\ arm.iter >= 2

\* C9: in gradient_method the line search counter equals the iteration
\* counter at every evaluation of the stopping test and on return; the line
\* search runs only for an iterate that failed the stopping test; and if
\* ||gradf(x0)|| < epsilon, x0 is returned with no line search at all.
C9_LineSearchPerIteration ==
  InGradientMethod =>
    /\ pc \in {"gm_test", "done"} => n_call_armijo = iter
    /\ pc \in {"armijo", "gm_update"} =>
         /\ iter = n_call_armijo + 1
         /\ ~NormLt(gradf(args.obj, xk).val, args.epsilon)
    /\ (IsColumn2(args.x0) /\ NormLt(gradf(args.obj, args.x0).val, args.epsilon)) =>
         /\ pc \in {"call", "gm_test", "done"}
         /\ n_call_armijo = 0 /\ iter = 0
         /\ pc = "done" => ret = Ok(args.x0)

\* C9 witness: gradient_method has returned after two line searches
C9_Witness ==
  InGradientMethod /\ pc = "done" /\ n_call_armijo = 2

\* C10: for an x0 that is not 2x1, gradient_method fails with the shape
\* error of x1() before f or gradf is evaluated and before any iteration.
C10_OnlyTwoByOne ==
  (InGradientMethod /\ ~IsColumn2(args.x0)) =>
    /\ pc \in {"call", "error"}
    /\ pc = "error" => ret.err = "invalid_argument"
    /\ ~evaluated
    /\ iter = 0 /\ n_call_armijo = 0

\* C10 witness: gradient_method has failed for a 3x1 initial point
C10_Witness ==
  /\ InGradientMethod /\ pc = "error"
  /\ args.x0.m = 3 /\ args.x0.n = 1

====
